---- MODULE Spec2Model ----
(***************************************************************************)
(* Model of the hail python binding layer: HailContext (context.py) and    *)
(* KeyTable (keytable.py).  Both classes are facades over objects living   *)
(* in a JVM reached through py4j.  The model keeps the local objects'      *)
(* fields, the remote tables the handles point to, and a log of the remote *)
(* calls issued by the most recent operation.                              *)
(***************************************************************************)
EXTENDS Integers, Sequences, FiniteSets, TLC

VARIABLES hc, tables, jkts, calls, last

vars == <<hc, tables, jkts, calls, last>>

\* ---------------------------------------------------------------- bounds
MaxTables == 2      \* KeyTable objects the caller keeps a reference to
MaxLen == 2         \* length of the lists a caller passes

\* ------------------------------------------------------- python values
PyNone == [kind |-> "NoneType"]
PyStr(s) == [kind |-> "str", val |-> s]
PyList(l) == [kind |-> "list", val |-> l]
PyInt(n) == [kind |-> "int", val |-> n]
PyBool(b) == [kind |-> "bool", val |-> b]

isinstance(v, k) == v.kind = k

\* python truth value of the values the model passes around
Truthy(v) == v # PyNone

\* the error py4j raises when the remote call throws
Py4JJavaError == [kind |-> "Py4JJavaError"]

RECURSIVE SeqsUpTo(_, _)
SeqsUpTo(S, n) ==
  IF n = 0 THEN {<<>>}
  ELSE LET shorter == SeqsUpTo(S, n - 1)
       IN  shorter \cup {Append(s, x) : s \in {t \in shorter : Len(t) = n - 1}, x \in S}

Range(s) == {s[i] : i \in 1..Len(s)}

\* ------------------------------------------------- the caller's inputs
ColumnNames == {"c1", "c2", "c3"}
ColumnLists == SeqsUpTo(ColumnNames, MaxLen)

\* expression strings, as sequences of characters
Exprs == {<<"a">>, <<"b">>}
ExprLists == SeqsUpTo(Exprs, MaxLen)
ExprArgs == {PyStr(e) : e \in Exprs} \cup {PyList(l) : l \in ExprLists}

\* what a remote table can look like: its columns and its key columns
Keyed == [cols |-> <<"c1", "c2", "c3">>, keys |-> <<"c1", "c2">>]
Unkeyed == [cols |-> <<"c3", "c2">>, keys |-> <<>>]
Shapes == {Keyed, Unkeyed}

\* ---------------------------------------------------- hail.java helpers
\* handle_py4j: a Py4JJavaError leaving the wrapped method becomes a FatalError
handle_py4j(raw) == IF raw = "Py4JJavaError" THEN "FatalError" ELSE raw

JNone == [kind |-> "scala.None"]
JSome(v) == [kind |-> "scala.Some", val |-> v]
joption(v) == IF v = PyNone THEN JNone ELSE JSome(v)

JSeq(l) == [kind |-> "IndexedSeq", val |-> l]
jindexed_seq_args(x) == IF isinstance(x, "str") THEN JSeq(<<x.val>>) ELSE JSeq(x.val)

jarray(l) == [kind |-> "Array", val |-> l.val]

\* ------------------------------------------------------ remote objects
\* a named object of the JVM, and the handle of the n-th remote table
JavaObject(name) == [kind |-> "JavaObject", val |-> name]
JKeyTable(n) == [kind |-> "JKeyTable", val |-> n]

\* ------------------------------------------------------ remote calls
Call(target, method, args, ret) ==
  [target |-> target, method |-> method, args |-> args, ret |-> ret]

\* the calls of plan that are issued when call number failAt throws (0: none does)
Run(plan, failAt) ==
  IF failAt = 0 THEN plan
  ELSE SubSeq(plan, 1, failAt - 1) \o <<[plan[failAt] EXCEPT !.ret = Py4JJavaError]>>

Raw(failAt) == IF failAt = 0 THEN "ok" ELSE "Py4JJavaError"

Op(op, self, args, outcome, ret) ==
  [op |-> op, self |-> self, args |-> args, outcome |-> outcome, ret |-> ret]

\* ------------------------------------------------------------ KeyTable
KeyTable(h) ==
  [hc |-> "hc", _jkt |-> h,
   _schema |-> PyNone, _num_columns |-> PyNone,
   _key_names |-> PyNone, _column_names |-> PyNone]

TStruct(cols) == [kind |-> "TStruct", val |-> cols]

Alive == 1..Len(tables)

\* the caller can keep a reference to one more KeyTable
HasRoom == Len(tables) < MaxTables

\* the k-th handle the bridge hands out next: the handles of the tables the
\* caller kept are 1..Len(tables), those of dropped objects are released
Fresh(k) == JKeyTable(Len(tables) + k)

\* what the remote table behind handle h answers
nFields(h) == PyInt(Len(jkts[h.val].cols))
signature(h) == TStruct(jkts[h.val].cols)
keyNames(h) == PyList(jkts[h.val].keys)
fieldNames(h) == PyList(jkts[h.val].cols)
\* ReadProperty without the cache: every read calls the remote table and
\* nothing is stored
ReadProperty_uncached(op, i, field, method, value, fail) ==
  /\ calls' = Run(<<Call(tables[i]._jkt, method, <<>>, value)>>, IF fail THEN 1 ELSE 0)
  /\ last' = Op(op, i, <<>>, Raw(IF fail THEN 1 ELSE 0), IF fail THEN PyNone ELSE value)
  /\ UNCHANGED <<hc, tables, jkts>>

\* A property read: the cached value when there is one, else one remote call
\* whose answer is stored in the cache field.
ReadProperty(op, i, field, method, value, fail) ==
  LET self == tables[i]
      failAt == IF fail THEN 1 ELSE 0
  IN  IF self[field] = PyNone
      THEN /\ calls' = Run(<<Call(self._jkt, method, <<>>, value)>>, failAt)
           /\ tables' = IF fail THEN tables ELSE [tables EXCEPT ![i][field] = value]
           /\ last' = Op(op, i, <<>>, Raw(failAt), IF fail THEN PyNone ELSE value)
           /\ UNCHANGED <<hc, jkts>>
      ELSE /\ calls' = <<>>
           /\ last' = Op(op, i, <<>>, "ok", self[field])
           /\ UNCHANGED <<hc, tables, jkts>>

num_columns(i, fail) ==
  ReadProperty("num_columns", i, "_num_columns", "nFields", nFields(tables[i]._jkt), fail)

schema(i, fail) ==
  ReadProperty("schema", i, "_schema", "signature", signature(tables[i]._jkt), fail)

key_names(i, fail) ==
  ReadProperty("key_names", i, "_key_names", "keyNames", keyNames(tables[i]._jkt), fail)

column_names(i, fail) ==
  ReadProperty("column_names", i, "_column_names", "fieldNames", fieldNames(tables[i]._jkt), fail)

\* A method that returns what one remote call on the receiver's handle returns.
Forward(op, i, args, method, jargs, ret, fail, outcome) ==
  /\ calls' = Run(<<Call(tables[i]._jkt, method, jargs, ret)>>, IF fail THEN 1 ELSE 0)
  /\ last' = Op(op, i, args, outcome, IF fail THEN PyNone ELSE ret)
  /\ UNCHANGED <<hc, tables, jkts>>

\* return KeyTable(self.hc, <the remote calls of plan>): plan's last call returns
\* the new handle; tbl is the table list after the property reads plan begins
\* with; keep says whether the caller keeps a reference to the returned table.
Wrap(op, i, args, plan, tbl, shape, keep, failAt, outcome) ==
  /\ keep => HasRoom
  /\ calls' = Run(plan, failAt)
  /\ last' = Op(op, i, args, outcome,
                IF failAt = 0 THEN KeyTable(plan[Len(plan)].ret) ELSE PyNone)
  /\ IF failAt = 0 /\ keep
     THEN /\ tables' = Append(tbl, KeyTable(plan[Len(plan)].ret))
          /\ jkts' = Append(jkts, shape)
     ELSE /\ tables' = tbl
          /\ UNCHANGED jkts
  /\ UNCHANGED hc

count_rows(i, n, fail) ==
  Forward("count_rows", i, <<>>, "nRows", <<>>, [kind |-> "long", val |-> n], fail,
          handle_py4j(Raw(IF fail THEN 1 ELSE 0)))

same(i, j, b, fail) ==
  Forward("same", i, <<tables[j]>>, "same", <<tables[j]._jkt>>, PyBool(b), fail,
          handle_py4j(Raw(IF fail THEN 1 ELSE 0)))

export(i, output, types_file, fail) ==
  Forward("export", i, <<output, types_file>>, "export", <<hc._jsc, output, types_file>>,
          PyNone, fail, handle_py4j(Raw(IF fail THEN 1 ELSE 0)))

filter(i, condition, keep, shape, kept, fail) ==
  LET failAt == IF fail THEN 1 ELSE 0
  IN  Wrap("filter", i, <<condition, keep>>,
           <<Call(tables[i]._jkt, "filter", <<condition, keep>>, Fresh(1))>>,
           tables, shape, kept, failAt, handle_py4j(Raw(failAt)))

\* str.join with the separator fixed to a comma
RECURSIVE str_join_comma(_, _)
str_join_comma(sep, l) ==
  IF l = <<>> THEN <<>>
  ELSE IF Len(l) = 1 THEN l[1]
  ELSE l[1] \o <<",">> \o str_join_comma(sep, Tail(l))

\* str.join: the elements of l with sep between neighbours
RECURSIVE str_join(_, _)
str_join(sep, l) ==
  IF l = <<>> THEN <<>>
  ELSE IF Len(l) = 1 THEN l[1]
  ELSE l[1] \o sep \o str_join(sep, Tail(l))

annotate(i, expr, shape, kept, fail) ==
  LET failAt == IF fail THEN 1 ELSE 0
      e == IF isinstance(expr, "list") THEN PyStr(str_join(<<",">>, expr.val)) ELSE expr
  IN  Wrap("annotate", i, <<expr>>,
           <<Call(tables[i]._jkt, "annotate", <<e>>, Fresh(1))>>,
           tables, shape, kept, failAt, handle_py4j(Raw(failAt)))

\* join with receiver and argument exchanged in the remote call
join_on_right(i, right, how, shape, kept, fail) ==
  LET failAt == IF fail THEN 1 ELSE 0
  IN  Wrap("join", i, <<tables[right], how>>,
           <<Call(tables[right]._jkt, "join", <<tables[i]._jkt, how>>, Fresh(1))>>,
           tables, shape, kept, failAt, Raw(failAt))

\* join carries no handle_py4j decorator
join(i, right, how, shape, kept, fail) ==
  LET failAt == IF fail THEN 1 ELSE 0
  IN  Wrap("join", i, <<tables[right], how>>,
           <<Call(tables[i]._jkt, "join", <<tables[right]._jkt, how>>, Fresh(1))>>,
           tables, shape, kept, failAt, Raw(failAt))

aggregate_by_key(i, key_expr, agg_expr, shape, kept, fail) ==
  LET failAt == IF fail THEN 1 ELSE 0
      k == IF isinstance(key_expr, "list") THEN PyStr(str_join(<<",">>, key_expr.val)) ELSE key_expr
      a == IF isinstance(agg_expr, "list") THEN PyStr(str_join(<<",", " ">>, agg_expr.val)) ELSE agg_expr
  IN  Wrap("aggregate_by_key", i, <<key_expr, agg_expr>>,
           <<Call(tables[i]._jkt, "aggregate", <<k, a>>, Fresh(1))>>,
           tables, shape, kept, failAt, handle_py4j(Raw(failAt)))

forall(i, code, b, fail) ==
  Forward("forall", i, <<code>>, "forall", <<code>>, PyBool(b), fail,
          handle_py4j(Raw(IF fail THEN 1 ELSE 0)))

exists(i, code, b, fail) ==
  Forward("exists", i, <<code>>, "exists", <<code>>, PyBool(b), fail,
          handle_py4j(Raw(IF fail THEN 1 ELSE 0)))

rename(i, names, shape, kept, fail) ==
  LET failAt == IF fail THEN 1 ELSE 0
  IN  Wrap("rename", i, <<names>>,
           <<Call(tables[i]._jkt, "rename", <<names>>, Fresh(1))>>,
           tables, shape, kept, failAt, handle_py4j(Raw(failAt)))

expand_types(i, shape, kept, fail) ==
  LET failAt == IF fail THEN 1 ELSE 0
  IN  Wrap("expand_types", i, <<>>,
           <<Call(tables[i]._jkt, "expandTypes", <<>>, Fresh(1))>>,
           tables, shape, kept, failAt, handle_py4j(Raw(failAt)))

\* The remote calls a method makes when it reads a cached property first and then
\* calls method with jargs: the read costs a call only while the cache is empty.
ReadThen(i, field, getter, value, method, jargs) ==
  (IF tables[i][field] = PyNone
   THEN <<Call(tables[i]._jkt, getter, <<>>, value)>> ELSE <<>>)
  \o <<Call(tables[i]._jkt, method, jargs, Fresh(1))>>

\* the table list after the property read of ReadThen, when that read succeeded
Cached(i, field, value, failAt) ==
  IF tables[i][field] = PyNone /\ failAt # 1
  THEN [tables EXCEPT ![i][field] = value] ELSE tables

\* key_by that selects the key columns only
key_by_keys_only(i, names, shape, kept, failAt) ==
  LET plan == <<Call(tables[i]._jkt, "select", <<names, names>>, Fresh(1))>>
  IN  /\ failAt <= Len(plan)
      /\ Wrap("key_by", i, <<names>>, plan, tables, shape, kept, failAt,
              handle_py4j(Raw(failAt)))

key_by(i, names, shape, kept, failAt) ==
  LET h == tables[i]._jkt
      plan == ReadThen(i, "_column_names", "fieldNames", fieldNames(h),
                       "select", <<fieldNames(h), names>>)
  IN  /\ failAt <= Len(plan)
      /\ Wrap("key_by", i, <<names>>, plan,
              Cached(i, "_column_names", fieldNames(h), failAt),
              shape, kept, failAt, handle_py4j(Raw(failAt)))

flatten(i, shape, kept, fail) ==
  LET failAt == IF fail THEN 1 ELSE 0
  IN  Wrap("flatten", i, <<>>,
           <<Call(tables[i]._jkt, "flatten", <<>>, Fresh(1))>>,
           tables, shape, kept, failAt, handle_py4j(Raw(failAt)))

\* [c for c in names if c in keys]: the keys in the order of the caller's list
KeysIn_column_order(keys, names) ==
  SelectSeq(names, LAMBDA c : \E n \in 1..Len(keys) : keys[n] = c)

\* [k for k in keys if k in names]
RECURSIVE KeysIn(_, _)
KeysIn(keys, names) ==
  IF keys = <<>> THEN <<>>
  ELSE (IF \E n \in 1..Len(names) : names[n] = Head(keys) THEN <<Head(keys)>> ELSE <<>>)
       \o KeysIn(Tail(keys), names)

select(i, names, shape, kept, failAt) ==
  LET h == tables[i]._jkt
      new_key_names == PyList(KeysIn(keyNames(h).val, names.val))
      plan == ReadThen(i, "_key_names", "keyNames", keyNames(h),
                       "select", <<names, new_key_names>>)
  IN  /\ failAt <= Len(plan)
      /\ Wrap("select", i, <<names>>, plan,
              Cached(i, "_key_names", keyNames(h), failAt),
              shape, kept, failAt, handle_py4j(Raw(failAt)))

\* explode without the wrapping of a single name
explode_raw(i, names, shape, kept, fail) ==
  LET failAt == IF fail THEN 1 ELSE 0
  IN  Wrap("explode", i, <<names>>,
           <<Call(tables[i]._jkt, "explode", <<names>>, Fresh(1))>>,
           tables, shape, kept, failAt, handle_py4j(Raw(failAt)))

explode(i, names, shape, kept, fail) ==
  LET failAt == IF fail THEN 1 ELSE 0
      l == IF isinstance(names, "str") THEN PyList(<<names.val>>) ELSE names
  IN  Wrap("explode", i, <<names>>,
           <<Call(tables[i]._jkt, "explode", <<l>>, Fresh(1))>>,
           tables, shape, kept, failAt, handle_py4j(Raw(failAt)))

JDataFrame(h) == [kind |-> "JDataFrame", val |-> h]
DataFrame(jdf, sql) == [kind |-> "DataFrame", val |-> jdf, sql |-> sql]

\* to_dataframe with flatten run before expandTypes
ToDFPlan_flatten_first(h, expand, flat) ==
  LET c1 == IF flat THEN <<Call(h, "flatten", <<>>, Fresh(1))>> ELSE <<>>
      j1 == IF flat THEN Fresh(1) ELSE h
      n1 == IF flat THEN Fresh(2) ELSE Fresh(1)
      c2 == IF expand THEN <<Call(j1, "expandTypes", <<>>, n1)>> ELSE <<>>
      j2 == IF expand THEN n1 ELSE j1
  IN  c1 \o c2 \o <<Call(j2, "toDF", <<hc._jsql_context>>, JDataFrame(j2))>>

\* the remote calls of to_dataframe, in the order the method issues them
ToDFPlan(h, expand, flat) ==
  LET c1 == IF expand THEN <<Call(h, "expandTypes", <<>>, Fresh(1))>> ELSE <<>>
      j1 == IF expand THEN Fresh(1) ELSE h
      n1 == IF expand THEN Fresh(2) ELSE Fresh(1)
      c2 == IF flat THEN <<Call(j1, "flatten", <<>>, n1)>> ELSE <<>>
      j2 == IF flat THEN n1 ELSE j1
  IN  c1 \o c2 \o <<Call(j2, "toDF", <<hc._jsql_context>>, JDataFrame(j2))>>

ToDF(op, i, expand, flat, failAt) ==
  LET plan == ToDFPlan(tables[i]._jkt, expand, flat)
  IN  /\ failAt <= Len(plan)
      /\ calls' = Run(plan, failAt)
      /\ last' = Op(op, i, <<PyBool(expand), PyBool(flat)>>, handle_py4j(Raw(failAt)),
                    IF failAt = 0 THEN DataFrame(plan[Len(plan)].ret, hc._sql_context)
                    ELSE PyNone)
      /\ UNCHANGED <<hc, tables, jkts>>

to_dataframe(i, expand, flat, failAt) == ToDF("to_dataframe", i, expand, flat, failAt)

\* to_dataframe(expand, flatten).toPandas(); toPandas runs in the local pyspark
to_pandas(i, expand, flat, failAt) ==
  /\ ToDF("to_pandas", i, expand, flat, failAt)

export_mongodb(i, mode, fail) ==
  /\ calls' = Run(<<Call(JavaObject("driver"), "exportMongoDB",
                         <<hc._jsql_context, tables[i]._jkt, mode>>, PyNone)>>,
                  IF fail THEN 1 ELSE 0)
  /\ last' = Op("export_mongodb", i, <<mode>>, handle_py4j(Raw(IF fail THEN 1 ELSE 0)), PyNone)
  /\ UNCHANGED <<hc, tables, jkts>>

_typecheck(i, fail) ==
  Forward("_typecheck", i, <<>>, "typeCheck", <<>>, PyNone, fail,
          handle_py4j(Raw(IF fail THEN 1 ELSE 0)))

\* -------------------------------------------------------- HailContext
\* a pyspark SparkContext: the java context it wraps and who built it
SparkContext(jsc, by) == [kind |-> "SparkContext", _jsc |-> jsc, by |-> by]
JavaSparkContext(jsc) == [kind |-> "JavaSparkContext", val |-> jsc]
SQLContext(sc, jsql) == [kind |-> "SQLContext", sc |-> sc, val |-> jsql]
TextTableConfig(v) == [kind |-> "TextTableConfig", val |-> v]
_to_java(config) == [kind |-> "JTextTableConfig", val |-> config.val]
VariantDataset(jvds) == [kind |-> "VariantDataset", hc |-> "hc", _jvds |-> jvds]
PyFloat(s) == [kind |-> "float", val |-> s]

\* the remote session HailContext.apply builds: it runs on the context it was
\* given, or on one of its own when it was given none
JHailContext(jsc) ==
  [kind |-> "JHailContext",
   sc |-> IF jsc = PyNone THEN JavaObject("sc0") ELSE jsc.val,
   sqlContext |-> JavaObject("sql0")]

NoContext ==
  [constructed |-> FALSE, sc |-> PyNone, _jhc |-> PyNone, _jsc |-> PyNone,
   _jsql_context |-> PyNone, _sql_context |-> PyNone]

\* __init__ with self.sc = sc: no context is built when the caller gave none
NewContext_keeps_none(sc) ==
  LET jsc == IF Truthy(sc) THEN sc._jsc ELSE PyNone
      jhc == JHailContext(jsc)
  IN  [constructed |-> TRUE, sc |-> sc, _jhc |-> jhc, _jsc |-> jhc.sc,
       _jsql_context |-> jhc.sqlContext,
       _sql_context |-> SQLContext(sc, jhc.sqlContext)]

\* the fields HailContext.__init__ sets when every remote call succeeds
NewContext(sc) ==
  LET jsc == IF Truthy(sc) THEN sc._jsc ELSE PyNone
      jhc == JHailContext(jsc)
      own == IF Truthy(sc) THEN sc
             ELSE SparkContext(JavaSparkContext(jhc.sc), "HailContext")
  IN  [constructed |-> TRUE, sc |-> own, _jhc |-> jhc, _jsc |-> jhc.sc,
       _jsql_context |-> jhc.sqlContext,
       _sql_context |-> SQLContext(own, jhc.sqlContext)]

\* the remote calls of HailContext.__init__, in order
InitPlan(sc, appName, master) ==
  LET jsc == IF Truthy(sc) THEN sc._jsc ELSE PyNone
      jhc == JHailContext(jsc)
  IN  <<Call(JavaObject("HailContext"), "apply",
             <<jsc, appName, joption(master), PyStr("local[*]"), PyStr("hail.log"),
               PyBool(FALSE), PyBool(FALSE), PyStr("uncompressed"), PyInt(1),
               PyInt(50), PyStr("/tmp")>>, jhc),
        Call(JavaObject("jhc"), "sc", <<>>, jhc.sc)>>
      \o (IF Truthy(sc) THEN <<>>
          ELSE <<Call(JavaObject("jvm"), "JavaSparkContext", <<jhc.sc>>, JavaSparkContext(jhc.sc))>>)
      \o <<Call(JavaObject("jhc"), "sqlContext", <<>>, jhc.sqlContext)>>

\* HailContext.__init__ carries no handle_py4j decorator
HailContext(sc, appName, master, failAt) ==
  LET plan == InitPlan(sc, appName, master)
  IN  /\ ~hc.constructed
      /\ failAt <= Len(plan)
      /\ calls' = Run(plan, failAt)
      /\ hc' = IF failAt = 0 THEN NewContext(sc) ELSE hc
      /\ last' = Op("__init__", 0, <<sc, appName, master>>, Raw(failAt), PyNone)
      /\ UNCHANGED <<tables, jkts>>

\* A HailContext method that makes one call on the remote session and returns ret.
Session(op, args, method, jargs, jret, ret, fail) ==
  /\ hc.constructed
  /\ calls' = Run(<<Call(JavaObject("jhc"), method, jargs, jret)>>, IF fail THEN 1 ELSE 0)
  /\ last' = Op(op, 0, args, handle_py4j(Raw(IF fail THEN 1 ELSE 0)),
                IF fail THEN PyNone ELSE ret)
  /\ UNCHANGED <<hc, tables, jkts>>

grep(regex, path, max_count, fail) ==
  Session("grep", <<regex, path, max_count>>, "grep",
          <<regex, jindexed_seq_args(path), max_count>>, PyNone, PyNone, fail)

import_annotations_table(path, variant_expr, code, npartitions, config, jvds, fail) ==
  Session("import_annotations_table", <<path, variant_expr, code, npartitions, config>>,
          "importAnnotationsTables",
          <<jindexed_seq_args(path), variant_expr, joption(code), joption(npartitions),
            _to_java(config)>>, jvds, VariantDataset(jvds), fail)

import_bgen(path, tolerance, sample_file, npartitions, compress, jvds, fail) ==
  Session("import_bgen", <<path, tolerance, sample_file, npartitions, compress>>,
          "importBgens",
          <<jindexed_seq_args(path), joption(sample_file), tolerance, joption(npartitions),
            PyBool(TRUE)>>, jvds, VariantDataset(jvds), fail)

import_gen(path, sample_file, tolerance, npartitions, chromosome, compress, jvds, fail) ==
  Session("import_gen", <<path, sample_file, tolerance, npartitions, chromosome, compress>>,
          "importGens",
          <<jindexed_seq_args(path), sample_file, joption(chromosome), joption(npartitions),
            tolerance, compress>>, jvds, VariantDataset(jvds), fail)

\* A HailContext method whose remote call returns a new table handle; keep says
\* whether the caller keeps a reference to the returned table.
NewTable(op, args, target, method, jargs, shape, keep, fail) ==
  /\ hc.constructed
  /\ keep => HasRoom
  /\ calls' = Run(<<Call(target, method, jargs, Fresh(1))>>, IF fail THEN 1 ELSE 0)
  /\ last' = Op(op, 0, args, handle_py4j(Raw(IF fail THEN 1 ELSE 0)),
                IF fail THEN PyNone ELSE KeyTable(Fresh(1)))
  /\ IF fail \/ ~keep THEN UNCHANGED <<tables, jkts>>
     ELSE /\ tables' = Append(tables, KeyTable(Fresh(1)))
          /\ jkts' = Append(jkts, shape)
  /\ UNCHANGED hc

import_keytable(path, names, npartitions, config, shape, kept, fail) ==
  LET cfg == IF ~Truthy(config) THEN TextTableConfig("default") ELSE config
  IN  NewTable("import_keytable", <<path, names, npartitions, config>>, JavaObject("jhc"),
               "importKeyTable",
               <<jindexed_seq_args(path), jindexed_seq_args(names), joption(npartitions),
                 _to_java(cfg)>>, shape, kept, fail)

import_plink(bed, bim, fam, npartitions, delimiter, missing, quantpheno, compress, jvds, fail) ==
  Session("import_plink",
          <<bed, bim, fam, npartitions, delimiter, missing, quantpheno, compress>>,
          "importPlink",
          <<bed, bim, fam, joption(npartitions), delimiter, missing, quantpheno, compress>>,
          jvds, VariantDataset(jvds), fail)

read(path, sites_only, samples_only, jvds, fail) ==
  Session("read", <<path, sites_only, samples_only>>, "readAll",
          <<jindexed_seq_args(path), sites_only, samples_only>>,
          jvds, VariantDataset(jvds), fail)

write_partitioning(path, fail) ==
  Session("write_partitioning", <<path>>, "writePartitioning", <<path>>,
          PyNone, PyNone, fail)

import_vcf(path, force, force_bgz, header_file, npartitions, sites_only, store_gq, pp_as_pl, skip_bad_ad, compress, jvds, fail) ==
  Session("import_vcf",
          <<path, force, force_bgz, header_file, npartitions, sites_only, store_gq,
            pp_as_pl, skip_bad_ad, compress>>,
          "importVCFs",
          <<jindexed_seq_args(path), force, force_bgz, joption(header_file),
            joption(npartitions), sites_only, store_gq, pp_as_pl, skip_bad_ad, compress>>,
          jvds, VariantDataset(jvds), fail)

index_bgen(path, fail) ==
  Session("index_bgen", <<path>>, "indexBgen", <<jindexed_seq_args(path)>>,
          PyNone, PyNone, fail)

balding_nichols_model(populations, samples, variants, npartitions, pop_dist, fst, af_dist, seed, jvds, fail) ==
  LET jvm_pop_dist_opt == IF pop_dist = PyNone THEN joption(pop_dist)
                          ELSE joption(jarray(pop_dist))
      jvm_fst_opt == IF fst = PyNone THEN joption(fst) ELSE joption(jarray(fst))
  IN  Session("balding_nichols_model",
              <<populations, samples, variants, npartitions, pop_dist, fst, af_dist, seed>>,
              "baldingNicholsModel",
              <<populations, samples, variants, joption(npartitions), jvm_pop_dist_opt,
                jvm_fst_opt, [kind |-> "JDist", val |-> af_dist.val], seed>>,
              jvds, VariantDataset(jvds), fail)

dataframe_to_keytable(df, keys, shape, kept, fail) ==
  NewTable("dataframe_to_keytable", <<df, keys>>, JavaObject("KeyTable"), "fromDF",
           <<hc._jhc, df.val, jarray(keys)>>, shape, kept, fail)

\* stop carries no decorator; a second stop finds self.sc None
stop(fail) ==
  /\ hc.constructed
  /\ IF hc.sc = PyNone
     THEN /\ calls' = <<>>
          /\ last' = Op("stop", 0, <<>>, "AttributeError", PyNone)
          /\ UNCHANGED hc
     ELSE /\ calls' = Run(<<Call(hc.sc, "stop", <<>>, PyNone)>>, IF fail THEN 1 ELSE 0)
          /\ last' = Op("stop", 0, <<>>, Raw(IF fail THEN 1 ELSE 0), PyNone)
          /\ hc' = IF fail THEN hc ELSE [hc EXCEPT !.sc = PyNone]
  /\ UNCHANGED <<tables, jkts>>

\* ------------------------------------------------------ input domains
\* the argument tuples that differ from the first choice in at most one place;
\* D[p] is <<first choice, other choice>> for parameter p
OneOff(D) ==
  {[p \in 1..Len(D) |-> IF p = q THEN D[p][2] ELSE D[p][1]] : q \in 0..Len(D)}

PathChoice == <<PyStr("f1"), PyList(<<"f1", "f2">>)>>
FileChoice == <<PyNone, PyStr("f3")>>
IntChoice == <<PyNone, PyInt(8)>>
Off == <<PyBool(FALSE), PyBool(TRUE)>>
On == <<PyBool(TRUE), PyBool(FALSE)>>

AnnotationsArgs ==
  OneOff(<<PathChoice, <<PyStr("v"), PyStr("w")>>, <<PyNone, PyStr("y")>>, IntChoice,
           <<TextTableConfig("default"), TextTableConfig("impute")>>>>)
BgenArgs ==
  OneOff(<<PathChoice, <<PyFloat("0.2"), PyFloat("0.1")>>, FileChoice, IntChoice, On>>)
GenArgs ==
  OneOff(<<PathChoice, FileChoice, <<PyFloat("0.02"), PyFloat("0.1")>>, IntChoice,
           <<PyNone, PyStr("chr1")>>, On>>)
KeyTableArgs ==
  OneOff(<<PathChoice, <<PyList(<<"c1">>), PyStr("c2")>>, IntChoice,
           <<TextTableConfig("default"), TextTableConfig("impute")>>>>)
  \cup {<<PyStr("f1"), PyList(<<"c1">>), PyNone, PyNone>>}
PlinkArgs ==
  OneOff(<<<<PyStr("bed"), PyStr("bed2")>>, <<PyStr("bim"), PyStr("bim2")>>,
           <<PyStr("fam"), PyStr("fam2")>>, IntChoice, <<PyStr("\\\\s+"), PyStr("tab")>>,
           <<PyStr("NA"), PyStr("-")>>, Off, On>>)
ReadArgs == OneOff(<<PathChoice, Off, Off>>)
VcfArgs == OneOff(<<PathChoice, Off, Off, FileChoice, IntChoice, Off, Off, Off, Off, Off>>)
BaldingArgs ==
  OneOff(<<<<PyInt(3), PyInt(4)>>, <<PyInt(100), PyInt(40)>>, <<PyInt(1000), PyInt(150)>>,
           IntChoice, <<PyNone, PyList(<<"0.5", "0.5">>)>>, <<PyNone, PyList(<<"0.1", "0.2">>)>>,
           <<[kind |-> "UniformDist", val |-> <<"0.1", "0.9">>],
             [kind |-> "BetaDist", val |-> <<"0.01", "2.0">>]>>,
           <<PyInt(0), PyInt(1)>>>>)
InitArgs ==
  OneOff(<<<<PyNone, SparkContext(JavaSparkContext(JavaObject("sc1")), "caller")>>,
           <<PyStr("Hail"), PyStr("app")>>, <<PyNone, PyStr("local[2]")>>>>)

JVds == {JavaObject("vds1"), JavaObject("vds2")}
Conditions == {PyStr(e) : e \in Exprs}
NameArgs == {PyStr(c) : c \in ColumnNames} \cup {PyList(l) : l \in ColumnLists}
Renames == {PyList(<<"c4", "c5", "c6">>), [kind |-> "dict", val |-> <<<<"c1", "c4">>>>]}
SparkDataFrame == [kind |-> "DataFrame", val |-> JavaObject("jdf"), sql |-> JavaObject("sql")]

\* sample arguments for the methods whose arguments pass through untouched
SomeCols == PyList(<<"c2", "c1">>)
SomeExprs == {PyStr(<<"a">>), PyList(<<<<"a">>, <<"b">>>>)}

\* --------------------------------------------------- the specifications
\* KeyTable methods that delegate to the remote table, from a context built
\* as HailContext() builds it
Init ==
  /\ hc = NewContext(PyNone)
  /\ tables = <<>>
  /\ jkts = <<>>
  /\ calls = <<>>
  /\ last = Op("__init__", 0, <<PyNone, PyStr("Hail"), PyNone>>, "ok", PyNone)

Next ==
  \/ \E kept \in BOOLEAN, fail \in BOOLEAN :
        import_keytable(PyStr("f1"), PyList(<<"c1">>), PyNone, PyNone, Keyed, kept, fail)
  \/ \E i \in Alive, fail \in BOOLEAN : count_rows(i, 4, fail)
  \/ \E i \in Alive, j \in Alive, fail \in BOOLEAN : same(i, j, TRUE, fail)
  \/ \E i \in Alive, t \in {PyNone, PyStr("types")}, fail \in BOOLEAN :
        export(i, PyStr("out"), t, fail)
  \/ \E i \in Alive, c \in Conditions, k \in {PyBool(TRUE), PyBool(FALSE)},
        kept \in BOOLEAN, fail \in BOOLEAN : filter(i, c, k, Keyed, kept, fail)
  \/ \E i \in Alive, e \in SomeExprs, kept \in BOOLEAN, fail \in BOOLEAN :
        annotate(i, e, Keyed, kept, fail)
  \/ \E i \in Alive, r \in Alive, how \in {PyStr("inner"), PyStr("left")},
        kept \in BOOLEAN, fail \in BOOLEAN : join(i, r, how, Keyed, kept, fail)
  \/ \E i \in Alive, e \in SomeExprs, kept \in BOOLEAN, fail \in BOOLEAN :
        aggregate_by_key(i, e, e, Keyed, kept, fail)
  \/ \E i \in Alive, c \in Conditions, fail \in BOOLEAN : forall(i, c, TRUE, fail)
  \/ \E i \in Alive, c \in Conditions, fail \in BOOLEAN : exists(i, c, FALSE, fail)
  \/ \E i \in Alive, n \in Renames, kept \in BOOLEAN, fail \in BOOLEAN :
        rename(i, n, Keyed, kept, fail)
  \/ \E i \in Alive, kept \in BOOLEAN, fail \in BOOLEAN : expand_types(i, Keyed, kept, fail)
  \/ \E i \in Alive, kept \in BOOLEAN, failAt \in 0..2 :
        key_by(i, SomeCols, Keyed, kept, failAt)
  \/ \E i \in Alive, kept \in BOOLEAN, fail \in BOOLEAN : flatten(i, Keyed, kept, fail)
  \/ \E i \in Alive, kept \in BOOLEAN, failAt \in 0..2 :
        select(i, SomeCols, Keyed, kept, failAt)
  \/ \E i \in Alive, e \in BOOLEAN, f \in BOOLEAN, failAt \in 0..3 :
        to_dataframe(i, e, f, failAt)
  \/ \E i \in Alive, e \in BOOLEAN, f \in BOOLEAN, failAt \in 0..3 :
        to_pandas(i, e, f, failAt)
  \/ \E i \in Alive, fail \in BOOLEAN : export_mongodb(i, PyStr("append"), fail)
  \/ \E i \in Alive, n \in {PyStr("c3"), PyList(<<"c2", "c3">>)}, kept \in BOOLEAN,
        fail \in BOOLEAN : explode(i, n, Keyed, kept, fail)
  \/ \E i \in Alive, fail \in BOOLEAN : _typecheck(i, fail)

Spec == Init /\ [][Next]_vars

\* One imported table, of either shape: the state import_keytable leaves.
InitTable ==
  /\ hc = NewContext(PyNone)
  /\ tables = <<KeyTable(JKeyTable(1))>>
  /\ \E s \in Shapes : jkts = <<s>>
  /\ calls = <<Call(JavaObject("jhc"), "importKeyTable",
                    <<JSeq(<<"f1">>), JSeq(<<"c1">>), JNone,
                      _to_java(TextTableConfig("default"))>>, JKeyTable(1))>>
  /\ last = Op("import_keytable", 0,
               <<PyStr("f1"), PyList(<<"c1">>), PyNone, PyNone>>, "ok", KeyTable(JKeyTable(1)))

\* the cached properties, read directly and through select and key_by
NextProps ==
  \/ \E i \in Alive, fail \in BOOLEAN : num_columns(i, fail)
  \/ \E i \in Alive, fail \in BOOLEAN : schema(i, fail)
  \/ \E i \in Alive, fail \in BOOLEAN : key_names(i, fail)
  \/ \E i \in Alive, fail \in BOOLEAN : column_names(i, fail)
  \/ \E i \in Alive, failAt \in 0..2 : key_by(i, SomeCols, Keyed, FALSE, failAt)
  \/ \E i \in Alive, failAt \in 0..2 : select(i, SomeCols, Keyed, FALSE, failAt)

SpecProps == InitTable /\ [][NextProps]_vars

\* the methods that rewrite their arguments, over all the argument values
NextArgs ==
  \/ \E i \in Alive, e \in ExprArgs, fail \in BOOLEAN : annotate(i, e, Keyed, FALSE, fail)
  \/ \E i \in Alive, k \in ExprArgs, a \in ExprArgs, fail \in BOOLEAN :
        aggregate_by_key(i, k, a, Keyed, FALSE, fail)
  \/ \E i \in Alive, l \in ColumnLists, failAt \in 0..2 :
        key_by(i, PyList(l), Keyed, FALSE, failAt)
  \/ \E i \in Alive, l \in ColumnLists, failAt \in 0..2 :
        select(i, PyList(l), Keyed, FALSE, failAt)
  \/ \E i \in Alive, n \in NameArgs, fail \in BOOLEAN : explode(i, n, Keyed, FALSE, fail)

SpecArgs == InitTable /\ [][NextArgs]_vars

\* HailContext: construction, the session's methods, stop
InitContext ==
  /\ hc = NoContext
  /\ tables = <<>>
  /\ jkts = <<>>
  /\ calls = <<>>
  /\ last = Op("none", 0, <<>>, "ok", PyNone)

NextContext ==
  \/ \E a \in InitArgs, failAt \in 0..4 : HailContext(a[1], a[2], a[3], failAt)
  \/ \E p \in {PathChoice[1], PathChoice[2]}, fail \in BOOLEAN :
        grep(PyStr("x"), p, PyInt(100), fail)
  \/ \E a \in AnnotationsArgs, j \in JVds, fail \in BOOLEAN :
        import_annotations_table(a[1], a[2], a[3], a[4], a[5], j, fail)
  \/ \E a \in BgenArgs, j \in JVds, fail \in BOOLEAN :
        import_bgen(a[1], a[2], a[3], a[4], a[5], j, fail)
  \/ \E a \in GenArgs, j \in JVds, fail \in BOOLEAN :
        import_gen(a[1], a[2], a[3], a[4], a[5], a[6], j, fail)
  \/ \E a \in KeyTableArgs, s \in Shapes, kept \in BOOLEAN, fail \in BOOLEAN :
        import_keytable(a[1], a[2], a[3], a[4], s, kept, fail)
  \/ \E a \in PlinkArgs, j \in JVds, fail \in BOOLEAN :
        import_plink(a[1], a[2], a[3], a[4], a[5], a[6], a[7], a[8], j, fail)
  \/ \E a \in ReadArgs, j \in JVds, fail \in BOOLEAN : read(a[1], a[2], a[3], j, fail)
  \/ \E fail \in BOOLEAN : write_partitioning(PyStr("f1"), fail)
  \/ \E a \in VcfArgs, j \in JVds, fail \in BOOLEAN :
        import_vcf(a[1], a[2], a[3], a[4], a[5], a[6], a[7], a[8], a[9], a[10], j, fail)
  \/ \E p \in {PathChoice[1], PathChoice[2]}, fail \in BOOLEAN : index_bgen(p, fail)
  \/ \E a \in BaldingArgs, j \in JVds, fail \in BOOLEAN :
        balding_nichols_model(a[1], a[2], a[3], a[4], a[5], a[6], a[7], a[8], j, fail)
  \/ \E k \in {PyList(<<>>), PyList(<<"c1">>)}, kept \in BOOLEAN, fail \in BOOLEAN :
        dataframe_to_keytable(SparkDataFrame, k, Keyed, kept, fail)
  \/ \E fail \in BOOLEAN : stop(fail)

SpecContext == InitContext /\ [][NextContext]_vars

\* ------------------------------------------------------------- claims
ImportOps ==
  {"import_vcf", "import_bgen", "import_gen", "import_plink", "read",
   "import_keytable", "import_annotations_table"}

\* the forms in which a caller's value v may reach the remote session
Forms(v) ==
  {v, joption(v)}
  \cup (IF v.kind = "str" THEN {JSeq(<<v.val>>)} ELSE {})
  \cup (IF v.kind = "list" THEN {JSeq(v.val)} ELSE {})
  \cup (IF v.kind = "TextTableConfig" THEN {_to_java(v)} ELSE {})
  \cup (IF v = PyNone THEN {_to_java(TextTableConfig("default"))} ELSE {})

\* C1: every import/read method of HailContext hands each argument the caller
\* passed to the remote session call (a path as a sequence, an optional value
\* as an option); none is dropped or replaced by a constant.
C1_ArgumentsForwarded ==
  (last.op \in ImportOps /\ calls # <<>>) =>
     /\ Len(calls[1].args) = Len(last.args)
     /\ \A p \in 1..Len(last.args) : Forms(last.args[p]) \cap Range(calls[1].args) # {}

ListedOps ==
  {"filter", "join", "aggregate_by_key", "rename", "explode", "select", "flatten",
   "export", "to_dataframe"}
  \cup ImportOps \cup {"grep", "write_partitioning", "index_bgen", "balding_nichols_model",
                       "dataframe_to_keytable"}

\* C2: a failing remote call never leaves one of the listed KeyTable methods or
\* a HailContext method as the raw bridge error; it is translated.
C2_ErrorsTranslated ==
  last.op \in ListedOps => last.outcome # "Py4JJavaError"

CacheFields == {"_num_columns", "_schema", "_key_names", "_column_names"}
PropertyReads == {"num_columns", "schema", "key_names", "column_names"}

ReaderOf(f) ==
  CASE f = "_num_columns" -> "num_columns"
    [] f = "_schema" -> "schema"
    [] f = "_key_names" -> "key_names"
    [] f = "_column_names" -> "column_names"

GetterOf(f) ==
  CASE f = "_num_columns" -> "nFields"
    [] f = "_schema" -> "signature"
    [] f = "_key_names" -> "keyNames"
    [] f = "_column_names" -> "fieldNames"

\* what the remote table of shape s answers for the property cached in f
AnswerOf(s, f) ==
  CASE f = "_num_columns" -> PyInt(Len(s.cols))
    [] f = "_schema" -> TStruct(s.cols)
    [] f = "_key_names" -> PyList(s.keys)
    [] f = "_column_names" -> PyList(s.cols)

\* C3 as stated: a KeyTable owns nothing but its handle, so every property read
\* issues a remote call.
C3_NoCache ==
  /\ \A i \in Alive : \A f \in CacheFields : tables[i][f] = PyNone
  /\ last.op \in PropertyReads => Len(calls) = 1

\* one step that reads the property cached in field f of table i
CachedRead(i, f) ==
  (last'.op = ReaderOf(f) /\ last'.self = i) =>
     IF tables[i][f] # PyNone
     THEN /\ calls' = <<>>
          /\ last'.outcome = "ok"
          /\ last'.ret = tables[i][f]
          /\ tables' = tables
     ELSE /\ Len(calls') = 1
          /\ calls'[1].target = tables[i]._jkt
          /\ calls'[1].method = GetterOf(f)
          /\ last'.outcome = "ok" =>
                /\ calls'[1].ret = AnswerOf(jkts[tables[i]._jkt.val], f)
                /\ last'.ret = calls'[1].ret
                /\ tables'[i][f] = calls'[1].ret

\* C3 (amended): a KeyTable also owns four cache fields, empty at first; a read
\* of a property whose cache is empty issues one remote call on the handle and
\* stores the answer, and a read of a cached property returns the stored value
\* and issues no remote call.
C3_ReadsAreCached ==
  [][\A i \in Alive : \A f \in CacheFields :
        /\ CachedRead(i, f)
        /\ tables'[i][f] \in {PyNone, AnswerOf(jkts[tables[i]._jkt.val], f)}]_vars

C3_Witness ==
  /\ last.op = "num_columns"
  /\ last.outcome = "ok"
  /\ calls = <<>>
  /\ last.ret = tables[last.self]._num_columns

Transformations ==
  {"filter", "annotate", "join", "aggregate_by_key", "rename", "expand_types", "key_by",
   "flatten", "select", "explode"}

MethodOf(op) ==
  CASE op = "filter" -> "filter"
    [] op = "annotate" -> "annotate"
    [] op = "join" -> "join"
    [] op = "aggregate_by_key" -> "aggregate"
    [] op = "rename" -> "rename"
    [] op = "expand_types" -> "expandTypes"
    [] op = "key_by" -> "select"
    [] op = "flatten" -> "flatten"
    [] op = "select" -> "select"
    [] op = "explode" -> "explode"

PropertyGetters == {"nFields", "signature", "keyNames", "fieldNames"}

\* C4: a transformation that succeeds issues exactly one transformation call,
\* on the receiver's handle, and returns a KeyTable around the handle that
\* call returned.
C4_TransformDelegates ==
  (last.op \in Transformations /\ last.outcome = "ok") =>
     LET T == {n \in 1..Len(calls) : calls[n].method \notin PropertyGetters}
     IN  /\ Cardinality(T) = 1
         /\ \A n \in T :
               /\ calls[n].method = MethodOf(last.op)
               /\ calls[n].target = tables[last.self]._jkt
               /\ last.ret._jkt = calls[n].ret
               /\ last.ret._jkt # tables[last.self]._jkt

C4_Witness ==
  /\ last.op = "join"
  /\ last.outcome = "ok"
  /\ last.args[1]._jkt # tables[last.self]._jkt
  /\ Len(tables) = 2

\* the methods of the calls in log c, in order
Methods(c) == [n \in 1..Len(c) |-> c[n].method]

\* C5: to_dataframe calls expandTypes on the receiver's handle iff expand,
\* then flatten iff flatten, on the result of expandTypes when there is one,
\* then toDF on the result of the last step (a failing call ends the chain).
C5_ExpandThenFlatten ==
  last.op = "to_dataframe" =>
     LET want == (IF last.args[1].val THEN <<"expandTypes">> ELSE <<>>)
                 \o (IF last.args[2].val THEN <<"flatten">> ELSE <<>>) \o <<"toDF">>
     IN  /\ Len(calls) \in 1..Len(want)
         /\ Methods(calls) = SubSeq(want, 1, Len(calls))
         /\ last.outcome = "ok" => Len(calls) = Len(want)
         /\ calls[1].target = tables[last.self]._jkt
         /\ \A n \in 2..Len(calls) : calls[n].target = calls[n - 1].ret

C5_Witness ==
  /\ last.op = "to_dataframe"
  /\ last.outcome = "ok"
  /\ last.args = <<PyBool(TRUE), PyBool(TRUE)>>
  /\ Len(calls) = 3

\* the position of x in the sequence s
IndexIn(s, x) == CHOOSE n \in 1..Len(s) : s[n] = x

\* C6: select hands the remote select the caller's column list unchanged and
\* a key list holding exactly the receiver's keys that occur in that list,
\* each once, in the order of the receiver's keys.
C6_SelectKeys ==
  (last.op = "select" /\ last.outcome = "ok") =>
     LET c == calls[Len(calls)]
         keys == jkts[tables[last.self]._jkt.val].keys
         K == c.args[2].val
     IN  /\ c.method = "select"
         /\ c.args[1] = last.args[1]
         /\ c.args[2].kind = "list"
         /\ Range(K) = Range(keys) \cap Range(last.args[1].val)
         /\ \A a \in 1..Len(K) : \A b \in 1..Len(K) :
               a < b => IndexIn(keys, K[a]) < IndexIn(keys, K[b])

C6_Witness ==
  /\ last.op = "select"
  /\ last.outcome = "ok"
  /\ last.args[1] = PyList(<<"c2", "c1">>)
  /\ calls[Len(calls)].args[2] = PyList(<<"c1", "c2">>)

\* C7: key_by hands the remote select all the receiver's columns in their
\* order and the key list exactly as the caller gave it.
C7_KeyByKeepsColumns ==
  (last.op = "key_by" /\ last.outcome = "ok") =>
     LET c == calls[Len(calls)]
     IN  /\ c.method = "select"
         /\ c.args = <<PyList(jkts[tables[last.self]._jkt.val].cols), last.args[1]>>

C7_Witness ==
  /\ last.op = "key_by"
  /\ last.outcome = "ok"
  /\ last.args[1] = PyList(<<>>)
  /\ calls[Len(calls)].args[1] = PyList(<<"c1", "c2", "c3">>)

RECURSIVE Separated(_, _)
Separated(l, sep) ==
  IF Len(l) = 0 THEN <<>>
  ELSE IF Len(l) = 1 THEN l[1]
  ELSE Separated(SubSeq(l, 1, Len(l) - 1), sep) \o sep \o l[Len(l)]

\* the string an expression argument e must arrive as, lists joined with sep
Expression(e, sep) == IF e.kind = "list" THEN PyStr(Separated(e.val, sep)) ELSE e

\* C9 as stated: annotate and aggregate_by_key forward a string unchanged and a
\* list as its elements in order separated by commas.
C9_CommaSeparated ==
  /\ (last.op = "annotate" /\ last.outcome = "ok") =>
        calls[1].args = <<Expression(last.args[1], <<",">>)>>
  /\ (last.op = "aggregate_by_key" /\ last.outcome = "ok") =>
        calls[1].args = <<Expression(last.args[1], <<",">>),
                          Expression(last.args[2], <<",">>)>>

\* C9 (amended): the elements are separated by a comma in annotate's expr and
\* in key_expr, and by a comma followed by a space in agg_expr.
C9_Separators ==
  /\ (last.op = "annotate" /\ last.outcome = "ok") =>
        calls[1].args = <<Expression(last.args[1], <<",">>)>>
  /\ (last.op = "aggregate_by_key" /\ last.outcome = "ok") =>
        calls[1].args = <<Expression(last.args[1], <<",">>),
                          Expression(last.args[2], <<",", " ">>)>>

C9_Witness ==
  /\ last.op = "aggregate_by_key"
  /\ last.outcome = "ok"
  /\ last.args = <<PyList(<<<<"a">>, <<"b">>>>), PyList(<<<<"b">>, <<"a">>>>)>>
  /\ calls[1].args = <<PyStr(<<"a", ",", "b">>), PyStr(<<"b", ",", " ", "a">>)>>

\* C10 as stated: once construction has succeeded hc.sc is never None.
C10_ScNeverNone ==
  hc.constructed => hc.sc # PyNone

\* what a successful construction from the arguments in l leaves in h, having
\* issued the remote calls c
Constructed(h, l, c) ==
  /\ h.constructed
  /\ h.sc # PyNone
  /\ IF l.args[1] # PyNone
     THEN /\ h.sc = l.args[1]
          /\ c[1].args[1] = l.args[1]._jsc
     ELSE /\ c[1].args[1] = PyNone
          /\ h.sc.by = "HailContext"
          /\ h.sc._jsc = JavaSparkContext(c[2].ret)
          /\ c[2].method = "sc"

\* C10 (amended): a successful construction leaves hc.sc not None (the
\* caller's context, whose java context apply received, or a new one around
\* the session's context when apply received none), and hc.sc stays not None
\* until stop() succeeds.
C10_ScUntilStop ==
  [][/\ (last'.op = "__init__" /\ last'.outcome = "ok") =>
           Constructed(hc', last', calls')
     /\ (hc.constructed /\ hc.sc # PyNone /\ hc'.sc = PyNone) =>
           (last'.op = "stop" /\ last'.outcome = "ok")]_vars

C10_Witness ==
  /\ last.op = "__init__"
  /\ last.outcome = "ok"
  /\ last.args[1] = PyNone
  /\ hc.sc.by = "HailContext"
====
